---- MODULE Spec2Model ----
(***************************************************************************)
(* Model of rate-limiter.py: the in-memory token bucket and leaky bucket   *)
(* limiters, the module-level engine toggle and the /api handler.          *)
(*                                                                         *)
(* Time is the value returned by time.time(), modelled as an integer       *)
(* `clock` that the environment moves (forward by Tick, backward by        *)
(* ClockBack: time.time() is the wall clock and is not monotonic).         *)
(* The four dictionaries of the two classes are functions whose DOMAIN is  *)
(* the set of keys present.                                                *)
(*                                                                         *)
(* The code computes with floats.  The model computes in fixed point:      *)
(* clock readings, capacity, tokens and levels are counted in ticks of     *)
(* 1/unit, so the literal 1 of lines 20, 23, 45 and 48 is `unit` ticks;    *)
(* rates are whole numbers per time unit, so (now - last) * rate is        *)
(* already in ticks.  With unit = 1 every quantity is a whole number.      *)
(***************************************************************************)
EXTENDS Integers, Sequences, FiniteSets, TLC

\* ------------------------------------------------------------------ bounds
MaxTime == 3          \* clock readings range over 0..MaxTime
MaxCap  == 2          \* constructor capacities range over 0..MaxCap
MaxRate == 1          \* constructor rates range over -1..MaxRate
Resolution == 2       \* ticks per time unit in the fine-grained runs
FineHorizon == 4      \* clock readings of the fine-grained runs: 0..FineHorizon ticks
RefHorizon == 5       \* clock readings of the deployed-configuration runs: 0..RefHorizon
NThreads == 2         \* request-handling threads of the server
MaxCalls == 3         \* requests the threads start in one concurrent run

\* ------------------------------------------------- constants of the program
RefCapacity == 5      \* capacity=5 of the deployed limiter
RefRate     == 1      \* refill_rate=1 / leak_rate=1 of the deployed limiter
HttpOk      == 200    \* status of jsonify(...) without an explicit code
HttpTooMany == 429    \* status of the rate-limit response

VARIABLES
    RATE_LIMIT_ALGO,  \* the module-level toggle string
    rate_limiter,     \* class of the limiter object built from the toggle
    capacity,         \* self.capacity
    refill_rate,      \* self.refill_rate (token bucket)
    leak_rate,        \* self.leak_rate (leaky bucket)
    unit,             \* ticks per 1.0: the resolution of the fixed-point arithmetic
    tokens,           \* InMemoryTokenBucket.tokens      : dict
    timestamps,       \* InMemoryTokenBucket.timestamps  : dict
    water_level,      \* InMemoryLeakyBucket.water_level : dict
    last_checked,     \* InMemoryLeakyBucket.last_checked: dict
    clock,            \* what time.time() returns now
    last,             \* the last completed /api request: user, ret, status
    pc,               \* per thread: the line of allow_request it is about to run
    frame,            \* per thread: the local variables of its allow_request call
    run,              \* observation, per identity: its current same-clock run of calls
    tally,            \* observation: the calls of a concurrent run and their outcomes
    writer,           \* observation, per identity: the call that stored its level / its timestamp
    admitted,         \* observation, per identity: the clock readings of its admitted calls
    variant           \* the dictionaries of an engine that also stores on rejection

cfgvars == <<RATE_LIMIT_ALGO, rate_limiter, capacity, refill_rate, leak_rate, unit>>
tokvars == <<tokens, timestamps>>
leakvars == <<water_level, last_checked>>
vars == <<RATE_LIMIT_ALGO, rate_limiter, capacity, refill_rate, leak_rate, unit,
          tokens, timestamps, water_level, last_checked, clock, last,
          pc, frame, run, tally, writer, admitted, variant>>
thrvars == <<pc, frame>>
histvars == <<admitted, variant>>

\* ------------------------------------------------------------ dictionaries
EmptyDict == [k \in {} |-> 0]

\* dict.get(k, default)
Get(d, k, default) == IF k \in DOMAIN d THEN d[k] ELSE default

\* mutant: the write lands on every key of the dictionary
MutPutShared(d, k, v) == [x \in (DOMAIN d) \cup {k} |-> v]

\* d[k] = v
Put(d, k, v) == [x \in (DOMAIN d) \cup {k} |-> IF x = k THEN v ELSE d[x]]

Min(a, b) == IF a <= b THEN a ELSE b
Max(a, b) == IF a >= b THEN a ELSE b

\* ------------------------------------------------------------------ inputs
Algos == {"token", "leaky", "fixed"}      \* values RATE_LIMIT_ALGO may be edited to
CapacityInputs == 0 .. MaxCap             \* constructor argument capacity
RateInputs == -1 .. MaxRate               \* constructor argument refill_rate / leak_rate
Requests == {EmptyDict, [user |-> "a"]}   \* request.args of a request to /api
Times == 0 .. MaxTime

\* ------------------------------------------------------------- token bucket
\* mutant: the refilled amount is not capped at capacity
MutNewTokensUncapped(tok, last_refill, now) ==
    tok + (now - last_refill) * refill_rate

\* mutant: every call refills as if one time unit had elapsed
MutNewTokensNoElapsed(tok, last_refill, now) ==
    Min(capacity, tok + refill_rate)

\* line 19: new_tokens = min(self.capacity, tokens + (now - last_refill) * self.refill_rate)
NewTokens(tok, last_refill, now) ==
    Min(capacity, tok + (now - last_refill) * refill_rate)

\* mutant: the last token is never handed out
MutTokenRejects(new_tokens) == new_tokens <= unit

\* line 20: if new_tokens < 1: return False
TokenRejects(new_tokens) == new_tokens < unit

\* The value the call returns (lines 15-25).
TokenDecision(identifier, now) ==
    ~TokenRejects(NewTokens(Get(tokens, identifier, capacity),
                            Get(timestamps, identifier, now), now))

\* mutant: an identity's bucket starts empty instead of full
MutTokenAllowRequestEmptyStart(identifier, ret) ==
    LET now == clock
        tok == Get(tokens, identifier, 0)
        last_refill == Get(timestamps, identifier, now)
        new_tokens == NewTokens(tok, last_refill, now)
    IN  IF TokenRejects(new_tokens)
        THEN /\ ret = FALSE
             /\ UNCHANGED tokvars
        ELSE /\ tokens' = Put(tokens, identifier, new_tokens - unit)
             /\ timestamps' = Put(timestamps, identifier, now)
             /\ ret = TRUE

\* mutant: a rejected call advances the identity's timestamp
MutTokenAllowRequestAdvance(identifier, ret) ==
    LET now == clock
        tok == Get(tokens, identifier, capacity)
        last_refill == Get(timestamps, identifier, now)
        new_tokens == NewTokens(tok, last_refill, now)
    IN  IF TokenRejects(new_tokens)
        THEN /\ ret = FALSE
             /\ timestamps' = Put(timestamps, identifier, now)
             /\ UNCHANGED tokens
        ELSE /\ tokens' = Put(tokens, identifier, new_tokens - unit)
             /\ timestamps' = Put(timestamps, identifier, now)
             /\ ret = TRUE

\* InMemoryTokenBucket.allow_request, one whole sequential call returning ret.
TokenAllowRequest(identifier, ret) ==
    LET now == clock
        tok == Get(tokens, identifier, capacity)
        last_refill == Get(timestamps, identifier, now)
        new_tokens == NewTokens(tok, last_refill, now)
    IN  IF TokenRejects(new_tokens)
        THEN /\ ret = FALSE
             /\ UNCHANGED tokvars
        ELSE /\ tokens' = Put(tokens, identifier, new_tokens - unit)
             /\ timestamps' = Put(timestamps, identifier, now)
             /\ ret = TRUE

\* ------------------------------------------------------------- leaky bucket
\* mutant: every call leaks as if one time unit had elapsed
MutLeaked(last_time, now) == leak_rate

\* line 42: leaked = (now - last_time) * self.leak_rate
Leaked(last_time, now) == (now - last_time) * leak_rate

\* line 43: level = max(0, level - leaked)
Drained(level, leaked) == Max(0, level - leaked)

\* mutant: the bucket admits one unit beyond capacity
MutLeakyRejects(level) == level > capacity

\* line 45: if level + 1 > self.capacity: return False
LeakyRejects(level) == level + unit > capacity

LeakyDecision(identifier, now) ==
    ~LeakyRejects(Drained(Get(water_level, identifier, 0),
                          Leaked(Get(last_checked, identifier, now), now)))

\* mutant: a rejected call stores the drained level and its clock reading
MutLeakyAllowRequestPersist(identifier, ret) ==
    LET now == clock
        level0 == Get(water_level, identifier, 0)
        last_time == Get(last_checked, identifier, now)
        leaked == Leaked(last_time, now)
        level == Drained(level0, leaked)
    IN  IF LeakyRejects(level)
        THEN /\ ret = FALSE
             /\ water_level' = Put(water_level, identifier, level)
             /\ last_checked' = Put(last_checked, identifier, now)
        ELSE /\ water_level' = Put(water_level, identifier, level + unit)
             /\ last_checked' = Put(last_checked, identifier, now)
             /\ ret = TRUE

\* InMemoryLeakyBucket.allow_request, one whole sequential call returning ret.
LeakyAllowRequest(identifier, ret) ==
    LET now == clock
        level0 == Get(water_level, identifier, 0)
        last_time == Get(last_checked, identifier, now)
        leaked == Leaked(last_time, now)
        level == Drained(level0, leaked)
    IN  IF LeakyRejects(level)
        THEN /\ ret = FALSE
             /\ UNCHANGED leakvars
        ELSE /\ water_level' = Put(water_level, identifier, level + unit)
             /\ last_checked' = Put(last_checked, identifier, now)
             /\ ret = TRUE

\* ------------------------------------------------------- toggle and handler
\* lines 60-63: if RATE_LIMIT_ALGO == 'token': ... else: ...
SelectLimiter(algo) ==
    IF algo = "token" THEN "InMemoryTokenBucket" ELSE "InMemoryLeakyBucket"

\* line 67: user_id = request.args.get("user", "anonymous")
UserId(args) == Get(args, "user", "anonymous")

\* mutant: the rejection is sent without its status code
MutStatus(ret) == HttpOk

\* lines 68-70: the status of the response for the limiter's answer
Status(ret) == IF ret THEN HttpOk ELSE HttpTooMany

\* whether rate_limiter is the token bucket (line 61) or the leaky one (line 63)
TokenEngine == rate_limiter = "InMemoryTokenBucket"

\* rate_limiter.allow_request(user_id) on whichever object was built
AllowRequest(identifier, ret) ==
    IF TokenEngine
    THEN TokenAllowRequest(identifier, ret) /\ UNCHANGED leakvars
    ELSE LeakyAllowRequest(identifier, ret) /\ UNCHANGED tokvars

\* ------------------------------------------------ observation of call runs
\* A run is a maximal sequence of consecutive calls of one identity that all
\* read the same clock value.  Per identity the model records the current
\* run: its clock value, its number of calls (saturating at RunCap), the
\* number of them admitted, whether it is the identity's first run, and
\* full_at: the clock value of the run before it when that run admitted
\* `capacity` calls (-1 otherwise).
RunCap == Max(capacity, 0) + 1

\* self.timestamps.get(identifier) / self.last_checked.get(identifier)
StoredTime(identifier) ==
    IF TokenEngine THEN Get(timestamps, identifier, -1)
                   ELSE Get(last_checked, identifier, -1)

NextRun(identifier, now, ret) ==
    LET one == IF ret THEN 1 ELSE 0 IN
    IF identifier \notin DOMAIN run
    THEN [now |-> now, calls |-> 1, adm |-> one, first |-> TRUE, full_at |-> -1]
    ELSE LET r == run[identifier] IN
         IF r.now = now
         THEN [r EXCEPT !.calls = Min(r.calls + 1, RunCap), !.adm = r.adm + one]
         ELSE [now |-> now, calls |-> 1, adm |-> one, first |-> FALSE,
               full_at |-> IF capacity >= unit /\ r.adm * unit = capacity
                           THEN r.now ELSE -1]

\* ----------------------------------------------------------------- actions
\* api() (lines 65-70): one request to /api, handled without interleaving
Handle(args) ==
    LET user_id == UserId(args) IN
    \E ret \in BOOLEAN :
        /\ AllowRequest(user_id, ret)
        /\ last' = [user |-> user_id, ret |-> ret, status |-> Status(ret)]
        /\ UNCHANGED <<cfgvars, clock, thrvars, tally, writer>>

Api(args) == Handle(args) /\ UNCHANGED <<run, histvars>>

\* the same request, with the identity's run of calls observed
ApiObserved(args) ==
    /\ Handle(args)
    /\ run' = Put(run, UserId(args), NextRun(UserId(args), clock, last'.ret))
    /\ UNCHANGED histvars

\* one request, with the clock readings of the admitted calls recorded for
\* each identity: admitted[id][t] is the number of calls admitted at reading t
ApiCounted(args) ==
    /\ Handle(args)
    /\ admitted' =
          IF last'.ret
          THEN LET mine == Get(admitted, UserId(args), EmptyDict)
               IN  Put(admitted, UserId(args), Put(mine, clock, Get(mine, clock, 0) + 1))
          ELSE admitted
    /\ UNCHANGED <<run, variant>>

\* one (identity, clock reading) call fed to a token bucket and to a leaky
\* bucket built with the same capacity and rate; the selected one answers
ApiBoth(args) ==
    \E rt, rl \in BOOLEAN :
        /\ TokenAllowRequest(UserId(args), rt)
        /\ LeakyAllowRequest(UserId(args), rl)
        /\ LET ret == IF TokenEngine THEN rt ELSE rl
           IN  last' = [user |-> UserId(args), ret |-> ret, status |-> Status(ret)]
        /\ UNCHANGED <<cfgvars, clock, thrvars, run, tally, writer, histvars>>

\* allow_request of the selected engine with its stores (lines 23-24 / 48-49)
\* also made on rejection, where they store the refilled / drained amount; it
\* runs on its own dictionaries, kept in `variant`
VariantEval(identifier, now) ==
    LET level == Get(variant.level, identifier, IF TokenEngine THEN capacity ELSE 0)
        last_time == Get(variant.time, identifier, now)
        new == IF TokenEngine
               THEN NewTokens(level, last_time, now)
               ELSE Drained(level, Leaked(last_time, now))
        rejects == IF TokenEngine THEN TokenRejects(new) ELSE LeakyRejects(new)
    IN  [ret |-> ~rejects,
         level |-> IF rejects THEN new
                   ELSE IF TokenEngine THEN new - unit ELSE new + unit,
         time |-> now]

\* one request, answered by the engine as coded and replayed on the variant
ApiVariant(args) ==
    /\ Handle(args)
    /\ LET e == VariantEval(UserId(args), clock)
       IN  variant' = [level |-> Put(variant.level, UserId(args), e.level),
                       time |-> Put(variant.time, UserId(args), e.time)]
    /\ UNCHANGED <<run, admitted>>

\* time passes
Tick(limit) ==
    /\ clock < limit
    /\ clock' = clock + 1
    /\ UNCHANGED <<cfgvars, tokvars, leakvars, last, thrvars, run, tally, writer, histvars>>

\* the wall clock is set back
ClockBack ==
    /\ \E t \in Times : t < clock /\ clock' = t
    /\ UNCHANGED <<cfgvars, tokvars, leakvars, last, thrvars, run, tally, writer, histvars>>

\* The limiter objects after construction (lines 8-12, 31-35, 58-63).
Construct(algo, cap, rate) ==
    /\ RATE_LIMIT_ALGO = algo
    /\ rate_limiter = SelectLimiter(algo)
    /\ capacity = cap
    /\ refill_rate = rate
    /\ leak_rate = rate
    /\ tokens = EmptyDict
    /\ timestamps = EmptyDict
    /\ water_level = EmptyDict
    /\ last_checked = EmptyDict

Threads == 1 .. NThreads
NoRequest == [user |-> "", ret |-> FALSE, status |-> 0]
NoFrame == [identifier |-> "", now |-> 0, level |-> 0, last |-> 0, new |-> 0,
            call |-> 0, level_by |-> 0, last_by |-> 0]
NoTally == [started |-> 0, calls |-> 0, adm |-> 0, ids |-> {}, nows |-> {}]
NoWriter == [level |-> EmptyDict, time |-> EmptyDict]
NoVariant == [level |-> EmptyDict, time |-> EmptyDict]

Idle ==
    /\ clock = 0
    /\ last = NoRequest
    /\ pc = [t \in Threads |-> "idle"]
    /\ frame = [t \in Threads |-> NoFrame]
    /\ run = EmptyDict
    /\ tally = NoTally
    /\ writer = NoWriter
    /\ admitted = EmptyDict
    /\ variant = NoVariant

\* --------------------------------------------------- threads of the server
\* The server handles each request on its own thread and the limiter takes
\* no lock, so the statements of concurrent allow_request calls interleave.
\* A thread's frame holds the call's locals: identifier, now, level (tokens /
\* level as read), last (last_refill / last_time) and new (new_tokens / the
\* drained level).  Calls are numbered from 1 in the order they start; writer
\* records which call stored an identity's level and which its timestamp, and
\* the frame's level_by / last_by record whose values the call read (0: the
\* default of dict.get).
Return(t, ret) ==
    /\ pc' = [pc EXCEPT ![t] = "idle"]
    /\ frame' = [frame EXCEPT ![t] = NoFrame]
    /\ last' = [user |-> frame[t].identifier, ret |-> ret, status |-> Status(ret)]
    /\ tally' = [tally EXCEPT !.calls = @ + 1, !.adm = @ + (IF ret THEN 1 ELSE 0)]

\* lines 67-68 and 15 / 38: the handler calls allow_request, which reads the clock
Enter(t, args) ==
    /\ pc[t] = "idle"
    /\ tally.started < MaxCalls
    /\ pc' = [pc EXCEPT ![t] = "read_level"]
    /\ frame' = [frame EXCEPT ![t] =
                    [NoFrame EXCEPT !.identifier = UserId(args), !.now = clock,
                                    !.call = tally.started + 1]]
    /\ tally' = [tally EXCEPT !.started = @ + 1,
                              !.ids = @ \cup {UserId(args)},
                              !.nows = @ \cup {clock}]
    /\ UNCHANGED <<cfgvars, tokvars, leakvars, clock, last, run, writer, histvars>>

\* line 16 / 39: tokens = self.tokens.get(identifier, self.capacity)
ReadLevel(t) ==
    /\ pc[t] = "read_level"
    /\ pc' = [pc EXCEPT ![t] = "read_time"]
    /\ frame' = [frame EXCEPT ![t].level =
                    IF TokenEngine
                    THEN Get(tokens, frame[t].identifier, capacity)
                    ELSE Get(water_level, frame[t].identifier, 0),
                                ![t].level_by = Get(writer.level, frame[t].identifier, 0)]
    /\ UNCHANGED <<cfgvars, tokvars, leakvars, clock, last, run, tally, writer, histvars>>

\* line 17 / 40: last_refill = self.timestamps.get(identifier, now)
ReadTime(t) ==
    /\ pc[t] = "read_time"
    /\ pc' = [pc EXCEPT ![t] = "decide"]
    /\ frame' = [frame EXCEPT ![t].last =
                    IF TokenEngine
                    THEN Get(timestamps, frame[t].identifier, frame[t].now)
                    ELSE Get(last_checked, frame[t].identifier, frame[t].now),
                                ![t].last_by = Get(writer.time, frame[t].identifier, 0)]
    /\ UNCHANGED <<cfgvars, tokvars, leakvars, clock, last, run, tally, writer, histvars>>

\* lines 19-21 / 42-46: the arithmetic on the locals and the rejection
Decide(t) ==
    /\ pc[t] = "decide"
    /\ LET f == frame[t]
           new == IF TokenEngine
                  THEN NewTokens(f.level, f.last, f.now)
                  ELSE Drained(f.level, Leaked(f.last, f.now))
           rejects == IF TokenEngine THEN TokenRejects(new) ELSE LeakyRejects(new)
       IN  IF rejects
           THEN Return(t, FALSE)
           ELSE /\ pc' = [pc EXCEPT ![t] = "write_level"]
                /\ frame' = [frame EXCEPT ![t].new = new]
                /\ UNCHANGED <<last, tally>>
    /\ UNCHANGED <<cfgvars, tokvars, leakvars, clock, run, writer, histvars>>

\* line 23 / 48: self.tokens[identifier] = new_tokens - 1
WriteLevel(t) ==
    /\ pc[t] = "write_level"
    /\ pc' = [pc EXCEPT ![t] = "write_time"]
    /\ IF TokenEngine
       THEN /\ tokens' = Put(tokens, frame[t].identifier, frame[t].new - unit)
            /\ UNCHANGED water_level
       ELSE /\ water_level' = Put(water_level, frame[t].identifier, frame[t].new + unit)
            /\ UNCHANGED tokens
    /\ writer' = [writer EXCEPT !.level = Put(@, frame[t].identifier, frame[t].call)]
    /\ UNCHANGED <<cfgvars, timestamps, last_checked, clock, last, frame, run, tally,
                   histvars>>

\* lines 24-25 / 49-50: self.timestamps[identifier] = now; return True
WriteTime(t) ==
    /\ pc[t] = "write_time"
    /\ IF TokenEngine
       THEN /\ timestamps' = Put(timestamps, frame[t].identifier, frame[t].now)
            /\ UNCHANGED last_checked
       ELSE /\ last_checked' = Put(last_checked, frame[t].identifier, frame[t].now)
            /\ UNCHANGED timestamps
    /\ writer' = [writer EXCEPT !.time = Put(@, frame[t].identifier, frame[t].call)]
    /\ Return(t, TRUE)
    /\ UNCHANGED <<cfgvars, tokens, water_level, clock, run, histvars>>

\* ----------------------------------------------------------- specifications
\* Sequential requests, any constructor arguments, a clock that moves both ways.
Init ==
    /\ \E algo \in Algos, cap \in CapacityInputs, rate \in RateInputs :
           Construct(algo, cap, rate)
    /\ unit = 1
    /\ Idle

Next ==
    \/ \E args \in Requests : Api(args)
    \/ Tick(MaxTime)
    \/ ClockBack

Spec == Init /\ [][Next]_vars

\* Sequential requests under a clock that only advances, runs of calls observed.
NextRuns ==
    \/ \E args \in Requests : ApiObserved(args)
    \/ Tick(MaxTime)

SpecRuns == Init /\ [][NextRuns]_vars

\* The deployed configuration (lines 61, 63) with either value of the toggle.
InitRef ==
    /\ \E algo \in {"token", "leaky"} : Construct(algo, RefCapacity, RefRate)
    /\ unit = 1
    /\ Idle

NextRef ==
    \/ \E args \in Requests : ApiObserved(args)
    \/ Tick(RefHorizon)

SpecRef == InitRef /\ [][NextRef]_vars

\* Sequential requests at sub-unit clock readings: `unit` ticks make one time
\* unit, the capacity is a positive number of ticks (below, at and above 1.0),
\* the rate is positive and refills at most one request's worth per tick.
InitFine ==
    /\ \E algo \in {"token", "leaky"}, cap \in 1 .. Resolution + 1,
          rate \in 1 .. Resolution :
           Construct(algo, cap, rate)
    /\ unit = Resolution
    /\ Idle

NextFine ==
    \/ \E args \in Requests : ApiObserved(args)
    \/ Tick(FineHorizon)

SpecFine == InitFine /\ [][NextFine]_vars

\* Sequential requests at sub-unit clock readings under a clock that only
\* advances, any constructor arguments, admitted calls recorded.
InitCounted ==
    /\ \E algo \in {"token", "leaky"}, cap \in 0 .. Resolution + 1, rate \in RateInputs :
           Construct(algo, cap, rate)
    /\ unit = Resolution
    /\ Idle

NextCounted ==
    \/ \E args \in Requests : ApiCounted(args)
    \/ Tick(FineHorizon)

SpecCounted == InitCounted /\ [][NextCounted]_vars

\* Both engines built with the same arguments (any arguments) and fed the same
\* sequential calls at sub-unit clock readings, the clock moving both ways.
InitBoth ==
    /\ \E algo \in {"token", "leaky"}, cap \in 0 .. Resolution + 1, rate \in RateInputs :
           Construct(algo, cap, rate)
    /\ unit = Resolution
    /\ Idle

NextBoth ==
    \/ \E args \in Requests : ApiBoth(args)
    \/ Tick(FineHorizon)
    \/ ClockBack

SpecBoth == InitBoth /\ [][NextBoth]_vars

\* Sequential requests at sub-unit clock readings under a clock that only
\* advances, any constructor arguments, each call replayed on the variant.
InitVariant ==
    /\ \E algo \in {"token", "leaky"}, cap \in 0 .. Resolution + 1, rate \in RateInputs :
           Construct(algo, cap, rate)
    /\ unit = Resolution
    /\ Idle

NextVariant ==
    \/ \E args \in Requests : ApiVariant(args)
    \/ Tick(FineHorizon)

SpecVariant == InitVariant /\ [][NextVariant]_vars

\* SpecCounted with time advancing and every identity calling again and again
SpecCountedFair ==
    /\ SpecCounted
    /\ WF_vars(Tick(FineHorizon))
    /\ \A args \in Requests : WF_vars(ApiCounted(args))

\* Requests handled concurrently by the server's threads, on a limiter built
\* with a positive capacity and rate.
InitThreads ==
    /\ \E algo \in {"token", "leaky"}, cap \in 1 .. MaxCap, rate \in 1 .. MaxRate :
           Construct(algo, cap, rate)
    /\ unit = 1
    /\ Idle

NextThreads ==
    \/ \E t \in Threads :
          \/ \E args \in Requests : Enter(t, args)
          \/ ReadLevel(t)
          \/ ReadTime(t)
          \/ Decide(t)
          \/ WriteLevel(t)
          \/ WriteTime(t)
    \/ Tick(MaxTime)

SpecThreads == InitThreads /\ [][NextThreads]_vars

\* ------------------------------------------------------------ observations
Identities == {UserId(args) : args \in Requests}

\* whether the limiter holds state for the identity
HasState(id) ==
    IF TokenEngine THEN id \in DOMAIN timestamps ELSE id \in DOMAIN last_checked

\* everything the two objects store for one identity
StateOf(id) ==
    <<id \in DOMAIN tokens, Get(tokens, id, 0),
      id \in DOMAIN timestamps, Get(timestamps, id, 0),
      id \in DOMAIN water_level, Get(water_level, id, 0),
      id \in DOMAIN last_checked, Get(last_checked, id, 0)>>

\* what a call for the identity would return at clock reading t
Decision(id, t) ==
    IF TokenEngine THEN TokenDecision(id, t) ELSE LeakyDecision(id, t)

Decisions(id) == [t \in Times |-> Decision(id, t)]

\* the configurations the constructors are documented to accept
ValidConfiguration == capacity > 0 /\ refill_rate > 0 /\ leak_rate > 0

\* ------------------------------------------------------------------ claims
\* C2 (burst admission): while every call an identity has made read one and
\* the same clock value, the calls admitted are the first `capacity` of them:
\* with n calls made, min(n, capacity) were admitted, so call capacity+1 and
\* every later one was rejected.
C2_BurstAdmission ==
    \A id \in DOMAIN run :
        (run[id].first /\ capacity >= 1) =>
            run[id].adm = Min(run[id].calls, capacity)

C2_Witness ==
    \E id \in DOMAIN run :
        /\ run[id].first
        /\ capacity >= 2
        /\ run[id].calls = capacity + 1
        /\ run[id].adm = capacity
        /\ last = [user |-> id, ret |-> FALSE, status |-> HttpTooMany]

\* C3 (clock monotonicity guard): a call that reads a clock value earlier than
\* the identity's stored timestamp returns what a call at the stored
\* timestamp would return and, when admitted, stores the tokens/level that
\* call would store (on a limiter built with a positive capacity and rate).
C3_ClockGuard ==
    [][\A args \in Requests :
         LET id == UserId(args) IN
         (Api(args) /\ HasState(id) /\ ValidConfiguration) =>
            IF TokenEngine
            THEN clock < timestamps[id] =>
                   /\ last'.ret = TokenDecision(id, timestamps[id])
                   /\ last'.ret => tokens'[id] =
                        NewTokens(tokens[id], timestamps[id], timestamps[id]) - unit
            ELSE clock < last_checked[id] =>
                   /\ last'.ret = LeakyDecision(id, last_checked[id])
                   /\ last'.ret => water_level'[id] =
                        Drained(water_level[id], 0) + unit]_vars

\* C4 (independence across identities): a call for one identity changes
\* nothing stored for any other identity b, and changes the answer b would
\* get at no clock reading.
C4_Independence ==
    [][\A args \in Requests :
         Api(args) =>
            \A b \in Identities \ {UserId(args)} :
                /\ StateOf(b)' = StateOf(b)
                /\ Decisions(b)' = Decisions(b)]_vars

C4_Witness ==
    /\ capacity >= 1
    /\ HasState("a")
    /\ ~Decision("a", clock)
    /\ last = [user |-> "anonymous", ret |-> TRUE, status |-> HttpOk]

\* C5 (token bounds): every stored token count is between 0 and capacity.
C5_TokenBounds ==
    capacity >= 1 =>
        \A id \in DOMAIN tokens : 0 <= tokens[id] /\ tokens[id] <= capacity

C5_Witness ==
    \E id \in DOMAIN tokens :
        /\ capacity >= 2
        /\ tokens[id] = 0
        /\ clock > timestamps[id]
        /\ last.user = id

\* C6 (leaky bounds): every stored water level is between 0 and capacity.
C6_LeakyBounds ==
    \A id \in DOMAIN water_level :
        0 <= water_level[id] /\ water_level[id] <= capacity

C6_Witness ==
    \E id \in DOMAIN water_level :
        /\ capacity >= 2
        /\ water_level[id] = capacity
        /\ clock > last_checked[id]
        /\ last.user = id

\* C7 (token refill recovery): on the token bucket with capacity 5 and refill
\* rate 1, no run of same-clock calls admits more than 5, and the run that
\* follows, k time units later (1 <= k <= 5), a run that admitted 5 calls
\* admits its first k calls and rejects the rest.
C7_TokenRefill ==
    TokenEngine =>
        \A id \in DOMAIN run :
            LET r == run[id]
                k == r.now - r.full_at
            IN  /\ r.adm <= RefCapacity
                /\ (r.full_at >= 0 /\ k \in 1 .. RefCapacity) =>
                       r.adm = Min(r.calls, k)

C7_Witness ==
    /\ TokenEngine
    /\ \E id \in DOMAIN run :
          /\ run[id].full_at >= 0
          /\ run[id].now = run[id].full_at + 1
          /\ run[id].calls = 2
          /\ run[id].adm = 1
          /\ last = [user |-> id, ret |-> FALSE, status |-> HttpTooMany]

\* C8 (leaky drain recovery): on the leaky bucket with capacity 5 and leak
\* rate 1, no run of same-clock calls admits more than 5, and the run that
\* follows, k time units later (1 <= k <= 5), a run that admitted 5 calls
\* admits its first k calls and rejects the rest.
C8_LeakyDrain ==
    ~TokenEngine =>
        \A id \in DOMAIN run :
            LET r == run[id]
                k == r.now - r.full_at
            IN  /\ r.adm <= RefCapacity
                /\ (r.full_at >= 0 /\ k \in 1 .. RefCapacity) =>
                       r.adm = Min(r.calls, k)

C8_Witness ==
    /\ ~TokenEngine
    /\ \E id \in DOMAIN run :
          /\ run[id].full_at >= 0
          /\ run[id].now = run[id].full_at + 1
          /\ run[id].calls = 2
          /\ run[id].adm = 1
          /\ last = [user |-> id, ret |-> FALSE, status |-> HttpTooMany]

\* C9 (invalid configuration): no limiter built with a non-positive capacity
\* or a non-positive rate ever answers a request.
C9_InvalidConfiguration ==
    last # NoRequest => (capacity > 0 /\ refill_rate > 0 /\ leak_rate > 0)

\* C10 (algorithm selection): no request is ever answered by an engine chosen
\* for a toggle string other than 'token' or 'leaky'.
C10_AlgorithmSelection ==
    last # NoRequest => RATE_LIMIT_ALGO \in {"token", "leaky"}

\* C1 (concurrency linearizability): when the calls made so far were all for
\* one identity and all read one clock value, and every one of them has
\* returned, min(number of calls, capacity) of them were admitted.
C1_Linearizable ==
    ( /\ \A t \in Threads : pc[t] = "idle"
      /\ Cardinality(tally.ids) = 1
      /\ Cardinality(tally.nows) = 1 )
    => tally.adm = Min(tally.calls, capacity)

\* C11 (HTTP mapping): a request to /api is answered for the identity of
\* its user parameter ('anonymous' when absent) with 200 exactly when
\* allow_request returns True for that identity at the current clock reading
\* and with 429 exactly when it returns False, and the limiter's state moves
\* by exactly one allow_request call: one request's worth on admission,
\* nothing on rejection.
C11_HttpMapping ==
    [][\A args \in Requests :
         Api(args) =>
            LET id == IF "user" \in DOMAIN args THEN args["user"] ELSE "anonymous"
                admit == Decision(id, clock)
            IN  /\ last'.user = id
                /\ last'.ret = admit
                /\ (last'.status = HttpOk) = admit
                /\ (last'.status = HttpTooMany) = ~admit
                /\ IF ~admit
                   THEN UNCHANGED <<tokvars, leakvars>>
                   ELSE IF TokenEngine
                   THEN /\ tokens'[id] + unit =
                             NewTokens(Get(tokens, id, capacity),
                                       Get(timestamps, id, clock), clock)
                        /\ timestamps'[id] = clock
                   ELSE /\ water_level'[id] - unit =
                             Drained(Get(water_level, id, 0),
                                     Leaked(Get(last_checked, id, clock), clock))
                        /\ last_checked'[id] = clock]_vars

C11_Witness ==
    /\ ValidConfiguration
    /\ last = [user |-> "anonymous", ret |-> FALSE, status |-> HttpTooMany]

C13_TokenRejectionFrame ==
    [][\A args \in Requests :
         (Handle(args) /\ TokenEngine /\ ~last'.ret) =>
            UNCHANGED <<tokens, timestamps>>]_vars

\* a call rejected at the current clock reading, later than the timestamp kept
C13_Witness ==
    /\ TokenEngine
    /\ \E id \in DOMAIN run :
          /\ run[id].now = clock
          /\ run[id].calls > run[id].adm
          /\ last = [user |-> id, ret |-> FALSE, status |-> HttpTooMany]
          /\ id \in DOMAIN timestamps
          /\ timestamps[id] < clock

\* C14 (atomic per-identity state): a call that has read its pair evaluates a
\* level and a timestamp that were both defaulted or both stored by one and
\* the same earlier call.
C14_AtomicPair ==
    \A t \in Threads :
        pc[t] = "decide" => frame[t].level_by = frame[t].last_by

\* what the first call of an identity returns when it is evaluated against
\* the default state (tokens = capacity / level = 0, zero elapsed time)
DefaultDecision ==
    IF TokenEngine
    THEN ~TokenRejects(NewTokens(capacity, clock, clock))
    ELSE ~LeakyRejects(Drained(0, Leaked(clock, clock)))

\* the parts of C15 that do not depend on the first call's outcome: an identity
\* has no state before its first call, the first call is evaluated against the
\* default, a call creates state for no other identity, no state is removed
LazyFrame(id) ==
    /\ id \notin DOMAIN run =>
          /\ ~HasState(id)
          /\ last'.ret = DefaultDecision
          /\ last'.ret =>
                IF TokenEngine THEN tokens'[id] = capacity - unit
                               ELSE water_level'[id] = unit
    /\ \A j \in Identities :
          /\ HasState(j) => HasState(j)'
          /\ (j # id /\ HasState(j)') => HasState(j)

\* C15 as stated (lazy creation): LazyFrame, and after an identity's first
\* call the limiter holds state for it.
C15_LazyCreation ==
    [][\A args \in Requests :
         Handle(args) =>
            /\ LazyFrame(UserId(args))
            /\ HasState(UserId(args))']_vars

\* C15 as amended: LazyFrame, and the limiter holds state for an identity
\* after its first admitted call, which is its first call when capacity >= 1.
C15_LazyCreationOnAdmission ==
    [][\A args \in Requests :
         Handle(args) =>
            /\ LazyFrame(UserId(args))
            /\ last'.ret => HasState(UserId(args))'
            /\ capacity >= unit => HasState(UserId(args))'
            /\ (~last'.ret /\ ~HasState(UserId(args))) => ~HasState(UserId(args))']_vars

\* one identity served its first call from the full default, the other never seen
C15_Witness ==
    /\ capacity >= unit
    /\ "a" \notin DOMAIN run
    /\ ~HasState("a")
    /\ "anonymous" \in DOMAIN run
    /\ run["anonymous"].first
    /\ run["anonymous"].calls = 1
    /\ HasState("anonymous")
    /\ last = [user |-> "anonymous", ret |-> TRUE, status |-> HttpOk]
    /\ IF TokenEngine THEN tokens["anonymous"] = capacity - unit
                      ELSE water_level["anonymous"] = unit

\* the rate of the selected engine
Rate == IF TokenEngine THEN refill_rate ELSE leak_rate

RECURSIVE AdmittedIn(_, _, _)
\* number of calls of identity id admitted with clock readings in [t1, t2]
AdmittedIn(id, t1, t2) ==
    IF t1 > t2 THEN 0
    ELSE Get(Get(admitted, id, EmptyDict), t1, 0) + AdmittedIn(id, t1 + 1, t2)

\* C16 (bounded consumption rate): for every identity and all times t1 <= t2,
\* the calls admitted in [t1, t2] number at most capacity + (t2 - t1) * rate.
\* Stated for the intervals in which the identity was admitted at least once
\* (an interval without admissions breaks the bound only by the bound being
\* negative).
C16_BoundedRate ==
    \A id \in Identities : \A t1 \in 0 .. clock : \A t2 \in t1 .. clock :
        AdmittedIn(id, t1, t2) > 0 =>
            AdmittedIn(id, t1, t2) * unit <= capacity + (t2 - t1) * Rate

\* the bound of C16 for every interval, on limiters built with a positive
\* capacity and rate
C16_BoundedRateValid ==
    ValidConfiguration =>
        \A id \in Identities : \A t1 \in 0 .. clock : \A t2 \in t1 .. clock :
            AdmittedIn(id, t1, t2) * unit <= capacity + (t2 - t1) * Rate

\* the states of the two engines correspond: the same identities have state,
\* with level = capacity - tokens and equal timestamps
Interchangeable ==
    /\ DOMAIN tokens = DOMAIN timestamps
    /\ DOMAIN water_level = DOMAIN tokens
    /\ DOMAIN last_checked = DOMAIN timestamps
    /\ \A id \in DOMAIN tokens :
          /\ water_level[id] = capacity - tokens[id]
          /\ last_checked[id] = timestamps[id]

\* C17 (engine interchangeability): a token bucket and a leaky bucket built
\* with the same capacity and rate and fed the same call return the same
\* decision, and after the call their states correspond.
C17_Interchangeable ==
    [][\A args \in Requests : \A rt, rl \in BOOLEAN :
          (/\ ApiBoth(args)
           /\ TokenAllowRequest(UserId(args), rt)
           /\ LeakyAllowRequest(UserId(args), rl))
          => (rt = rl /\ Interchangeable')]_vars

\* both engines hold corresponding state for an identity whose last call was
\* rejected after time had passed since its stored timestamp
C17_Witness ==
    /\ ValidConfiguration
    /\ last.user \in DOMAIN tokens \cap DOMAIN water_level
    /\ ~last.ret
    /\ clock > timestamps[last.user]
    /\ last_checked[last.user] = timestamps[last.user]
    /\ water_level[last.user] = capacity - tokens[last.user]
    /\ ~TokenDecision(last.user, clock)
    /\ ~LeakyDecision(last.user, clock)

\* C18 (rejection policy unobservable under a monotone clock): on every call
\* the engine as coded returns the decision of the variant that stores the
\* refilled / drained amount and the clock reading on rejection.
C18_RejectionPolicyUnobservable ==
    [][\A args \in Requests :
          ApiVariant(args) => last'.ret = VariantEval(UserId(args), clock).ret]_vars

\* a call rejected after time had passed: the variant stored the call's clock
\* reading and the partly refilled / drained amount, the coded engine kept its
\* older timestamp and amount
C18_Witness ==
    /\ ValidConfiguration
    /\ HasState(last.user)
    /\ last.user \in DOMAIN variant.time
    /\ ~last.ret
    /\ variant.time[last.user] = clock
    /\ StoredTime(last.user) < clock
    /\ variant.level[last.user] #
          (IF TokenEngine THEN tokens[last.user] ELSE water_level[last.user])

\* C19 (no permanent rejection): with capacity >= 1 and rate > 0 under a clock
\* that only advances, a call made at least 1/rate after the identity's stored
\* timestamp is admitted; and an identity rejected while a full time unit still
\* lies ahead is admitted again when it keeps calling as time advances.
C19_NoPermanentRejection ==
    /\ [][\A args \in Requests :
            (/\ Handle(args)
             /\ capacity >= unit
             /\ Rate > 0
             /\ HasState(UserId(args))
             /\ (clock - StoredTime(UserId(args))) * Rate >= unit)
            => last'.ret]_vars
    /\ \A id \in Identities :
          (/\ capacity >= unit
           /\ Rate > 0
           /\ last.user = id
           /\ ~last.ret
           /\ clock + unit <= FineHorizon)
          ~> (last.user = id /\ last.ret)

\* an identity whose bucket was used up is admitted by its first call made
\* exactly 1/rate after its stored timestamp, the reading t0 of its previous
\* admitted call
C19_Witness ==
    /\ capacity >= unit
    /\ Rate > 0
    /\ \E id \in DOMAIN admitted : \E t0 \in DOMAIN admitted[id] :
          /\ clock \in DOMAIN admitted[id]
          /\ admitted[id][clock] = 1
          /\ \A t \in DOMAIN admitted[id] : t <= t0 \/ t = clock
          /\ (clock - t0) * Rate = unit
          /\ last = [user |-> id, ret |-> TRUE, status |-> HttpOk]
          /\ StoredTime(id) = clock
          /\ IF TokenEngine THEN tokens[id] = 0 ELSE water_level[id] = capacity

====
